---- MODULE Spec2Model ----
\* Model of backend/server.js: the Orchestrator's work cycle (runCycle), the
\* AIAgent workers it drives, and the admin-gated control surface
\* (/api/payout, /api/emergency-stop).
\*
\* Granularity.  The server is single-threaded JavaScript: a timer callback or
\* a request handler runs together with every promise continuation it
\* resolves (the microtask queue is drained) before the next timer or request
\* is served.  One action of the model is therefore one such turn of the event
\* loop: from the firing of a timer (or the arrival of a request) up to the
\* next `await` on a timer or on the ledger.
EXTENDS Integers, Sequences, FiniteSets, TLC

\* ---------------------------------------------------------------- bounds
\* Largest cycleCount the model lets the loop reach.
MaxCycles == 2
\* Largest number of payouts awaiting the ledger at one time.
MaxInFlight == 1
\* Largest number of sendETH invocations the model follows.
MaxTransfers == 1
\* Largest number of tasks a substituted worker's discovery hands back.
MaxFound == 3
\* ------------------------------------------------ IEEE-754 double values
\* JavaScript numbers that hold ETH amounts are binary64.  A positive double
\* is [hi, lo, e]: its 53-bit significand is hi * 2^26 + lo, with
\* 2^26 <= hi < 2^27 and 0 <= lo < 2^26, and its value is significand * 2^e.
\* Zero is [hi |-> 0, lo |-> 0, e |-> 0].  (Two limbs, because TLC's integers
\* are 32 bits wide.)
LoBits == 26
HiBits == 27
\* Guard, round and sticky bit kept below the significand while adding.
ExtraBits == 3

DblZero == [hi |-> 0, lo |-> 0, e |-> 0]
IsZero(x) == x.hi = 0 /\ x.lo = 0

\* With the extra bits the low limb is LoBits + ExtraBits wide.
WideBits == LoBits + ExtraBits

\* The wide number [h, l] shifted right by d bits; a one shifted out sets
\* the lowest bit that stays (the sticky bit).
ShiftRightSticky(h, l, d) ==
  LET r == IF d = 0 THEN [h |-> h, l |-> l, lost |-> FALSE]
           ELSE IF d <= WideBits
           THEN [h |-> h \div 2^d,
                 l |-> (h % 2^d) * 2^(WideBits - d) + l \div 2^d,
                 lost |-> l % 2^d # 0]
           ELSE IF d <= WideBits + HiBits
           THEN [h |-> 0,
                 l |-> h \div 2^(d - WideBits),
                 lost |-> h % 2^(d - WideBits) # 0 \/ l # 0]
           ELSE [h |-> 0, l |-> 0, lost |-> h # 0 \/ l # 0]
  IN [h |-> r.h, l |-> IF r.lost /\ r.l % 2 = 0 THEN r.l + 1 ELSE r.l]

\* Round the wide number [h, l] * 2^e (2^26 <= h < 2^27) to 53 bits, to
\* nearest, ties to even.
RoundNearestEven(h, l, e) ==
  LET lo  == l \div 2^ExtraBits
      grs == l % 2^ExtraBits
      up  == grs > 2^(ExtraBits - 1) \/ (grs = 2^(ExtraBits - 1) /\ lo % 2 = 1)
      lo1 == IF up THEN lo + 1 ELSE lo
      hi1 == IF lo1 = 2^LoBits THEN h + 1 ELSE h
  IN IF hi1 = 2^HiBits
     THEN [hi |-> 2^(HiBits - 1), lo |-> 0, e |-> e + 1]
     ELSE [hi |-> hi1, lo |-> lo1 % 2^LoBits, e |-> e]

\* x + y of two non-negative doubles, as the JavaScript `+` computes it.
DblAdd(x, y) ==
  IF IsZero(x) THEN y
  ELSE IF IsZero(y) THEN x
  ELSE LET big   == IF x.e >= y.e THEN x ELSE y
           small == IF x.e >= y.e THEN y ELSE x
           s     == ShiftRightSticky(small.hi, small.lo * 2^ExtraBits, big.e - small.e)
           sl    == big.lo * 2^ExtraBits + s.l
           l     == sl % 2^WideBits
           h     == big.hi + s.h + sl \div 2^WideBits
       IN IF h >= 2^HiBits
          THEN LET n == ShiftRightSticky(h, l, 1)
               IN RoundNearestEven(n.h, n.l, big.e + 1)
          ELSE RoundNearestEven(h, l, big.e)

\* The wide number [h, l] shifted left until its top bit is set
\* (h >= 2^26), the exponent following.  [h, l] is not zero.
RECURSIVE NormalizeLeft(_, _, _)
NormalizeLeft(h, l, e) ==
  IF h >= 2^(HiBits - 1) THEN [h |-> h, l |-> l, e |-> e]
  ELSE NormalizeLeft(2 * h + l \div 2^(WideBits - 1), (2 * l) % 2^WideBits, e - 1)

\* x - y of two doubles with x >= y >= 0, as the JavaScript `-` computes it.
DblSub(x, y) ==
  IF IsZero(y) THEN x
  ELSE IF x = y THEN DblZero
  ELSE LET s      == ShiftRightSticky(y.hi, y.lo * 2^ExtraBits, x.e - y.e)
           dl     == x.lo * 2^ExtraBits - s.l
           borrow == IF dl < 0 THEN 1 ELSE 0
           n      == NormalizeLeft(x.hi - s.h - borrow, dl + borrow * 2^WideBits, x.e)
       IN RoundNearestEven(n.h, n.l, n.e)

\* Multiplication works on limbs of 13 bits, so that a column of partial
\* products stays below 2^31.
LimbBits == 13
LimbCount == 5

\* The 53-bit significand of x as five 13-bit limbs, least significant first.
Limbs(x) ==
  << x.lo % 2^LimbBits, x.lo \div 2^LimbBits,
     x.hi % 2^LimbBits, (x.hi \div 2^LimbBits) % 2^LimbBits,
     x.hi \div 2^(2 * LimbBits) >>

\* Column k (from 0) of the schoolbook product of two limb sequences.
Column(a, b, k) ==
  LET idx == { i \in 1..LimbCount : k + 2 - i \in 1..LimbCount }
      RECURSIVE Sum(_)
      Sum(S) == IF S = { } THEN 0
                ELSE LET i == CHOOSE j \in S : TRUE
                     IN a[i] * b[k + 2 - i] + Sum(S \ { i })
  IN Sum(idx)

RECURSIVE Carry(_, _, _, _)
\* The product's limbs from column k on, with the carry of the columns below.
Carry(a, b, k, c) ==
  IF k = 2 * LimbCount THEN << >>
  ELSE LET t == Column(a, b, k) + c
       IN << t % 2^LimbBits >> \o Carry(a, b, k + 1, t \div 2^LimbBits)

\* Bit i (from 0) of a limb sequence.
BitAt(p, i) == IF i < 0 THEN 0 ELSE (p[i \div LimbBits + 1] \div 2^(i % LimbBits)) % 2

RECURSIVE BitsValue(_, _, _)
\* The number made of the n bits of p from bit `from` upwards.
BitsValue(p, from, n) ==
  IF n = 0 THEN 0 ELSE BitAt(p, from) + 2 * BitsValue(p, from + 1, n - 1)

\* x * y of two non-negative doubles, as the JavaScript `*` computes it.
DblMul(x, y) ==
  IF IsZero(x) \/ IsZero(y) THEN DblZero
  ELSE LET p   == Carry(Limbs(x), Limbs(y), 0, 0)
           \* the product of two 53-bit significands has 105 or 106 bits
           len == IF BitAt(p, 2 * (LoBits + HiBits) - 1) = 1
                  THEN 2 * (LoBits + HiBits) ELSE 2 * (LoBits + HiBits) - 1
           low == len - (HiBits + WideBits)
           h   == BitsValue(p, low + WideBits, HiBits)
           l0  == BitsValue(p, low, WideBits)
           st  == \E i \in 0..(low - 1) : BitAt(p, i) = 1
           l   == IF st /\ l0 % 2 = 0 THEN l0 + 1 ELSE l0
       IN RoundNearestEven(h, l, x.e + y.e + low + ExtraBits)

\* The literal 0.01 of findTasks: 0x1.47ae147ae147bp-7, that is the
\* significand 0x147AE147AE147B = 85899345 * 2^26 + 61740155 and e = -59.
Reward == [hi |-> 85899345, lo |-> 61740155, e |-> 0 - 59]

\* x <= y for two non-negative doubles.
DblLeq(x, y) ==
  IF IsZero(x) THEN TRUE
  ELSE IF IsZero(y) THEN FALSE
  ELSE IF x.e # y.e THEN x.e < y.e
  ELSE IF x.hi # y.hi THEN x.hi < y.hi
  ELSE x.lo <= y.lo

\* A JavaScript number: a sign and a magnitude.  (undef marks the value
\* `undefined` of a variable that holds numbers.)
Num(neg, mag) == [undef |-> FALSE, neg |-> neg, mag |-> mag]
UndefinedNum == [undef |-> TRUE, neg |-> FALSE, mag |-> DblZero]

\* a * b
NumMul(a, b) == Num(a.neg # b.neg, DblMul(a.mag, b.mag))

\* a - b
NumSub(a, b) ==
  IF a.neg # b.neg THEN Num(a.neg, DblAdd(a.mag, b.mag))
  ELSE IF DblLeq(b.mag, a.mag) THEN Num(a.neg, DblSub(a.mag, b.mag))
  ELSE Num(~a.neg, DblSub(b.mag, a.mag))

\* The literals 1 and 100 (0x1.9p+6) as doubles.
DblOne == [hi |-> 2^(HiBits - 1), lo |-> 0, e |-> 0 - 52]
DblHundred == [hi |-> 25 * 2^22, lo |-> 0, e |-> 0 - 46]
\* 0.085 is 0x1.5c28f5c28f5c3p-4.
DblEightyFiveThousandths == [hi |-> 91268055, lo |-> 2684355, e |-> 0 - 56]

\* ------------------------------------------------------ program constants
\* amount * 0.02: 0.02 is 0x1.47ae147ae147bp-6.
FeeRate == Num(FALSE, [hi |-> 85899345, lo |-> 61740155, e |-> 0 - 58])
FindTasksMs == 1000
ExecuteTaskMs == 2000
CycleSleepMs == 300000
BackoffMs == 60000
\* tasks.slice(0, 2)
TaskCap == 2

AgentNames == << "GitcoinAgent", "UpworkAgent", "BountyAgent" >>
NumAgents == Len(AgentNames)

\* process.env.ADMIN_API_KEY / the x-api-key header: a string or undefined.
Undefined == "undefined"
KeyValues == { Undefined, "admin-key", "other-key" }

\* req.body.toAddress: absent, an address ethers accepts, or another string.
ValidAddress == "0xVALID"
AddressValues == { Undefined, ValidAddress, "not-an-address" }
\* ethers.utils.isAddress
IsAddress(a) == a = ValidAddress

\* req.body.amount: absent, or a number.
AmountValues ==
  { UndefinedNum, Num(FALSE, DblZero), Num(TRUE, DblOne), Num(FALSE, DblOne),
    Num(FALSE, DblHundred), Num(FALSE, DblEightyFiveThousandths) }

\* !x for a string field and for a number field of the request
FalsyString(x) == x = Undefined \/ x = ""
FalsyNumber(x) == x.undef \/ IsZero(x.mag)

VARIABLES
  adminKey,      \* process.env.ADMIN_API_KEY
  orchestrator,  \* TRUE once init() has constructed the Orchestrator
  startTimer,    \* TRUE while init()'s setTimeout(start, 10000) is pending
  isRunning,     \* orchestrator.isRunning
  stats,         \* orchestrator.stats
  agents,        \* orchestrator.agents, in pool order
  loops,         \* the runCycle() invocations that have not returned
  iterations,    \* history: number of times a loop body has been entered
  stopResponse,  \* the last response of POST /api/emergency-stop
  payouts,       \* the /api/payout handlers suspended inside sendETH
  sendETHCalls,  \* history: number of walletService.sendETH invocations
  lastTransfer,  \* history: the arguments of the last sendETH invocation
  submitted,     \* history: number of transactions the wallet has sent
  payoutResponse \* the last response of POST /api/payout

\* The wallet side of the server and the payout handler's response.
walletVars == << payouts, sendETHCalls, lastTransfer, submitted, payoutResponse >>
\* The orchestrator's statistics and its loops.
cycleVars == << stats, agents, loops, iterations >>

vars == << adminKey, orchestrator, startTimer, isRunning, stats, agents,
           loops, iterations, stopResponse, payouts, sendETHCalls,
           lastTransfer, submitted, payoutResponse >>

\* ------------------------------------------------------------ AIAgent
\* new AIAgent(name, capabilities)
NewAgent(name) ==
  [name |-> name, isActive |-> TRUE, tasksCompleted |-> 0, totalEarnings |-> DblZero]

\* What findTasks resolves to: the one sample task, with the 0.01 reward.
SampleTask == [title |-> "Sample Task", reward |-> Reward]
FoundTasks == << SampleTask >>

\* What the findTasks of a substituted worker resolves to: n tasks, told
\* apart by their titles, each with the sample reward.
StubTasks(n) ==
  [k \in 1..n |-> [title |-> <<"Stub Task", k>>, reward |-> Reward]]

\* Mutant: the task list is not capped.
MutSliceFrontAll(tasks, n) == tasks

\* tasks.slice(0, n)
SliceFront(tasks, n) == SubSeq(tasks, 1, IF Len(tasks) < n THEN Len(tasks) ELSE n)

\* Mutant: the worker counts a task whether or not it succeeded.
MutAgentCountsFailure(agent, task, success) ==
  [agent EXCEPT !.tasksCompleted = @ + 1,
                !.totalEarnings = DblAdd(@, task.reward)]

\* The worker's half of executeTask: the success branch updates its own
\* counters, the failure branch leaves them alone.
AgentAfterExecute(agent, task, success) ==
  IF success
  THEN [agent EXCEPT !.tasksCompleted = @ + 1,
                     !.totalEarnings = DblAdd(@, task.reward)]
  ELSE agent

\* Mutant: the worker reports failure although it has counted the task.
MutExecuteResultLost(task, success) == [success |-> FALSE, earnings |-> DblZero]

\* The value executeTask resolves to.
ExecuteResult(task, success) ==
  IF success THEN [success |-> TRUE, earnings |-> task.reward]
  ELSE [success |-> FALSE, earnings |-> DblZero]

\* AIAgent.getStats
AgentStats(agent) ==
  [name |-> agent.name, isActive |-> agent.isActive,
   tasksCompleted |-> agent.tasksCompleted, totalEarnings |-> agent.totalEarnings]

\* --------------------------------------------------------- Orchestrator
\* this.agents.filter(a => a.isActive), as indices into the pool.
ActiveAgents == SelectSeq([i \in 1..NumAgents |-> i], LAMBDA i : agents[i].isActive)

\* Mutant: the fold counts the task and forgets its earnings.
MutFoldCountOnly(s, result) ==
  IF result.success THEN [s EXCEPT !.tasksCompleted = @ + 1] ELSE s

\* Mutant: a result that arrives after stop() is dropped.
MutFoldWhileRunning(s, result) ==
  IF result.success /\ isRunning
  THEN [s EXCEPT !.totalEarnings = DblAdd(@, result.earnings),
                 !.tasksCompleted = @ + 1]
  ELSE s

\* if (result.success) { totalEarnings += result.earnings; tasksCompleted++ }
FoldResult(s, result) ==
  IF result.success
  THEN [s EXCEPT !.totalEarnings = DblAdd(@, result.earnings),
                 !.tasksCompleted = @ + 1]
  ELSE s

\* Mutant: the cycle is counted twice.
MutCountCycleTwice(s) == [s EXCEPT !.cycleCount = @ + 2]

\* this.stats.cycleCount++
CountCycle(s) == [s EXCEPT !.cycleCount = @ + 1]

\* A suspended runCycle(): where it awaits, on which timer, for which worker
\* (position in the filtered list) and with which tasks still to execute
\* (the head of `tasks` is the one in flight while pc = "executeTask").
AtFindTasks(pos) ==
  [pc |-> "findTasks", delay |-> FindTasksMs, pos |-> pos, tasks |-> << >>]
AtExecuteTask(pos, tasks) ==
  [pc |-> "executeTask", delay |-> ExecuteTaskMs, pos |-> pos, tasks |-> tasks]
AtSleep(ms) ==
  [pc |-> "sleep", delay |-> ms, pos |-> 0, tasks |-> << >>]

\* The for-loop over the active workers, entered at position pos: the next
\* worker's findTasks is called, or the cycle is over and the loop sleeps.
VisitAgent(pos) ==
  IF pos <= Len(ActiveAgents) THEN AtFindTasks(pos) ELSE AtSleep(CycleSleepMs)

\* The inner for-loop over the (capped) task list of the worker at pos.
VisitTask(pos, tasks) ==
  IF tasks # << >> THEN AtExecuteTask(pos, tasks) ELSE VisitAgent(pos + 1)

\* Mutant: the catch sleeps the full interval.
MutCatchFullSleep == AtSleep(CycleSleepMs)

\* catch (error) { ...; await sleep(60000) }
CatchCycleError == AtSleep(BackoffMs)

RemoveAt(s, i) == SubSeq(s, 1, i - 1) \o SubSeq(s, i + 1, Len(s))

\* Mutant: a do-while, the running flag is not tested before the body.
MutLoopTopNoTest(l, running) ==
  /\ stats.cycleCount < MaxCycles
  /\ stats' = CountCycle(stats)
  /\ iterations' = iterations + 1
  /\ loops' = IF l = 0 THEN Append(loops, VisitAgent(1))
              ELSE [loops EXCEPT ![l] = VisitAgent(1)]

\* The top of `while (this.isRunning)` for the loop at index l (l = 0: a
\* runCycle() that has just been called), with the running flag `running`.
\* A passed test enters the body: cycleCount++, then the first findTasks.
LoopTop(l, running) ==
  IF running
  THEN /\ stats.cycleCount < MaxCycles
       /\ stats' = CountCycle(stats)
       /\ iterations' = iterations + 1
       /\ loops' = IF l = 0 THEN Append(loops, VisitAgent(1))
                   ELSE [loops EXCEPT ![l] = VisitAgent(1)]
  ELSE /\ l # 0
       /\ loops' = RemoveAt(loops, l)
       /\ UNCHANGED << stats, iterations >>

\* Mutant: start() begins from fresh statistics.
MutStartBodyReset ==
  IF isRunning
  THEN UNCHANGED << isRunning, stats, loops, iterations >>
  ELSE /\ isRunning' = TRUE
       /\ stats.cycleCount < MaxCycles
       /\ stats' = [totalEarnings |-> DblZero, tasksCompleted |-> 0,
                    cycleCount |-> stats.cycleCount + 1]
       /\ iterations' = iterations + 1
       /\ loops' = Append(loops, VisitAgent(1))

\* Orchestrator.start(): the guard, the flag, and the synchronous part of
\* runCycle() up to its first await.
StartBody ==
  IF isRunning
  THEN UNCHANGED << isRunning, stats, loops, iterations >>
  ELSE /\ isRunning' = TRUE
       /\ LoopTop(0, TRUE)

\* Orchestrator.stop()
StopBody == isRunning' = FALSE

\* Orchestrator.getStats() (lastSync, a wall-clock string, left out).
GetStats ==
  [isRunning |-> isRunning,
   totalEarnings |-> stats.totalEarnings,
   tasksCompleted |-> stats.tasksCompleted,
   agentsActive |-> Len(ActiveAgents),
   agents |-> [i \in 1..NumAgents |-> AgentStats(agents[i])]]

\* ---------------------------------------------------------------- Init
NoResponse == [status |-> 0, error |-> ""]
NoPayoutResponse ==
  [status |-> 0, error |-> "", amount |-> UndefinedNum, fee |-> UndefinedNum]
NoTransfer == [toAddress |-> Undefined, amount |-> UndefinedNum]

Init ==
  /\ adminKey = "admin-key"
  /\ orchestrator = FALSE
  /\ startTimer = FALSE
  /\ isRunning = FALSE
  /\ stats = [totalEarnings |-> DblZero, tasksCompleted |-> 0, cycleCount |-> 0]
  /\ agents = [i \in 1..NumAgents |-> NewAgent(AgentNames[i])]
  /\ loops = << >>
  /\ iterations = 0
  /\ stopResponse = NoResponse
  /\ payouts = << >>
  /\ sendETHCalls = 0
  /\ lastTransfer = NoTransfer
  /\ submitted = 0
  /\ payoutResponse = NoPayoutResponse

\* ------------------------------------------------------------- actions
\* init(): the orchestrator is constructed and its start is deferred.
InitOrchestrator ==
  /\ ~orchestrator
  /\ orchestrator' = TRUE
  /\ startTimer' = TRUE
  /\ UNCHANGED << adminKey, isRunning, stats, agents, loops, iterations, stopResponse >>
  /\ UNCHANGED walletVars

\* setTimeout(() => orchestrator.start(), 10000) fires.
DeferredStart ==
  /\ startTimer
  /\ startTimer' = FALSE
  /\ StartBody
  /\ UNCHANGED << adminKey, orchestrator, agents, stopResponse >>
  /\ UNCHANGED walletVars

\* orchestrator.start() called by any other holder of the orchestrator.
Start ==
  /\ orchestrator
  /\ StartBody
  /\ UNCHANGED << adminKey, orchestrator, startTimer, agents, stopResponse >>
  /\ UNCHANGED walletVars

\* orchestrator.stop() called directly.
Stop ==
  /\ orchestrator
  /\ StopBody
  /\ UNCHANGED << adminKey, orchestrator, startTimer, stats, agents, loops,
                  iterations, stopResponse >>
  /\ UNCHANGED walletVars

\* The findTasks timer of loop l fires.  outcome = "resolve": the discovery
\* hands back its tasks, runCycle keeps the first TaskCap of them and calls
\* executeTask on the first.  outcome = "throw": the awaited discovery
\* rejects (the shipped worker never does; the catch of runCycle is there
\* for workers that do).
FindTasksTimer(l, outcome) ==
  /\ loops[l].pc = "findTasks"
  /\ loops' = [loops EXCEPT ![l] =
       IF outcome = "throw" THEN CatchCycleError
       ELSE VisitTask(loops[l].pos, SliceFront(FoundTasks, TaskCap))]
  /\ UNCHANGED << adminKey, orchestrator, startTimer, isRunning, stats, agents,
                  iterations, stopResponse >>
  /\ UNCHANGED walletVars

\* The findTasks of a substituted worker resolves for loop l with n tasks:
\* runCycle keeps the first TaskCap of them and calls executeTask on the
\* first, or goes on to the next worker when there is none.
StubFindTasksTimer(l, n) ==
  /\ loops[l].pc = "findTasks"
  /\ loops' = [loops EXCEPT ![l] =
       VisitTask(loops[l].pos, SliceFront(StubTasks(n), TaskCap))]
  /\ UNCHANGED << adminKey, orchestrator, startTimer, isRunning, stats, agents,
                  iterations, stopResponse >>
  /\ UNCHANGED walletVars

\* The executeTask timer of loop l fires.  outcome is the draw of
\* Math.random() > 0.25, or "throw" for an awaited execution that rejects
\* (again only a substituted worker's).
ExecuteTaskTimer(l, outcome) ==
  /\ loops[l].pc = "executeTask"
  /\ LET a    == ActiveAgents[loops[l].pos]
         task == Head(loops[l].tasks)
     IN IF outcome = "throw"
        THEN /\ loops' = [loops EXCEPT ![l] = CatchCycleError]
             /\ UNCHANGED << agents, stats >>
        ELSE /\ agents' = [agents EXCEPT ![a] =
                             AgentAfterExecute(@, task, outcome = "success")]
             /\ stats' = FoldResult(stats, ExecuteResult(task, outcome = "success"))
             /\ loops' = [loops EXCEPT ![l] = VisitTask(loops[l].pos, Tail(loops[l].tasks))]
  /\ UNCHANGED << adminKey, orchestrator, startTimer, isRunning, iterations, stopResponse >>
  /\ UNCHANGED walletVars

\* The 5-minute sleep or the 1-minute backoff of loop l ends: back to the
\* while test.
SleepTimer(l) ==
  /\ loops[l].pc = "sleep"
  /\ LoopTop(l, isRunning)
  /\ UNCHANGED << adminKey, orchestrator, startTimer, isRunning, agents, stopResponse >>
  /\ UNCHANGED walletVars

\* Mutant: the credential is not compared.
MutAuthorizedAlways(key) == TRUE

\* if (apiKey !== process.env.ADMIN_API_KEY): the request is let through.
Authorized(key) == key = adminKey

\* POST /api/emergency-stop with x-api-key = key.
EmergencyStop(key) ==
  /\ IF ~Authorized(key)
     THEN /\ stopResponse' = [status |-> 403, error |-> "Unauthorized"]
          /\ UNCHANGED isRunning
     ELSE IF ~orchestrator
     THEN \* orchestrator is undefined: stop() throws a TypeError, Express answers 500
          /\ stopResponse' = [status |-> 500, error |-> "TypeError"]
          /\ UNCHANGED isRunning
     ELSE /\ StopBody
          /\ stopResponse' = [status |-> 200, error |-> ""]
  /\ UNCHANGED << adminKey, orchestrator, startTimer >>
  /\ UNCHANGED cycleVars
  /\ UNCHANGED walletVars

\* const fee = amount * 0.02
Fee(amount) == NumMul(amount, FeeRate)
\* const netAmount = amount - fee
NetAmount(amount) == NumSub(amount, Fee(amount))

\* The handler's answers.
PayoutError(status, error) ==
  [status |-> status, error |-> error, amount |-> UndefinedNum, fee |-> UndefinedNum]
PayoutSuccess(p) == [status |-> 200, error |-> "", amount |-> p.amount, fee |-> p.fee]

\* Mutant: only the address is required.
MutMissingAddressOnly(toAddress, amount) == FalsyString(toAddress)

\* The validation of the request body: if (!toAddress || !amount).
MissingFields(toAddress, amount) == FalsyString(toAddress) \/ FalsyNumber(amount)

\* POST /api/payout with x-api-key = key and body { toAddress, amount }: the
\* handler up to its first suspension.  An authorized, complete request
\* calls walletService.sendETH(toAddress, netAmount), which throws at once
\* on an address that is none, or suspends at getGasPrice().
Payout(key, toAddress, amount) ==
  /\ IF ~Authorized(key)
     THEN /\ payoutResponse' = PayoutError(403, "Unauthorized")
          /\ UNCHANGED << payouts, sendETHCalls, lastTransfer >>
     ELSE IF MissingFields(toAddress, amount)
     THEN /\ payoutResponse' = PayoutError(400, "Missing fields")
          /\ UNCHANGED << payouts, sendETHCalls, lastTransfer >>
     ELSE /\ sendETHCalls < MaxTransfers
          /\ sendETHCalls' = sendETHCalls + 1
          /\ lastTransfer' = [toAddress |-> toAddress, amount |-> NetAmount(amount)]
          /\ IF ~IsAddress(toAddress)
             THEN /\ payoutResponse' = PayoutError(500, "Invalid address")
                  /\ UNCHANGED payouts
             ELSE /\ Len(payouts) < MaxInFlight
                  /\ payouts' = Append(payouts,
                       [stage |-> "getGasPrice", toAddress |-> toAddress,
                        amount |-> NetAmount(amount), fee |-> Fee(amount), sent |-> 0])
                  /\ UNCHANGED payoutResponse
  /\ UNCHANGED << adminKey, orchestrator, startTimer, isRunning, stopResponse, submitted >>
  /\ UNCHANGED cycleVars

\* The payout handler at index i ends: its response is sent.
Respond(i, response) ==
  /\ payouts' = RemoveAt(payouts, i)
  /\ payoutResponse' = response

\* provider.getGasPrice() settles for payout i.  Resolved, sendETH goes on to
\* wallet.sendTransaction(...); rejected, the handler's catch answers 500.
GasPriceSettles(i, ok) ==
  /\ payouts[i].stage = "getGasPrice"
  /\ IF ok
     THEN /\ payouts' = [payouts EXCEPT ![i].stage = "sendTransaction"]
          /\ UNCHANGED payoutResponse
     ELSE Respond(i, PayoutError(500, "getGasPrice failed"))
  /\ UNCHANGED << adminKey, orchestrator, startTimer, isRunning, stopResponse,
                  sendETHCalls, lastTransfer, submitted >>
  /\ UNCHANGED cycleVars

\* wallet.sendTransaction settles for payout i.  Resolved, the transaction
\* has been sent and sendETH waits for its receipt; rejected (always so for a
\* negative value), the handler's catch answers 500.
SendTransactionSettles(i, ok) ==
  /\ payouts[i].stage = "sendTransaction"
  /\ ok => ~payouts[i].amount.neg
  /\ IF ok
     THEN /\ payouts' = [payouts EXCEPT ![i].stage = "wait", ![i].sent = @ + 1]
          /\ submitted' = submitted + 1
          /\ UNCHANGED payoutResponse
     ELSE /\ Respond(i, PayoutError(500, "sendTransaction failed"))
          /\ UNCHANGED submitted
  /\ UNCHANGED << adminKey, orchestrator, startTimer, isRunning, stopResponse,
                  sendETHCalls, lastTransfer >>
  /\ UNCHANGED cycleVars

\* Mutant: a failed confirmation wait sends the transaction again.
MutWaitSettlesRetry(i, ok) ==
  /\ payouts[i].stage = "wait"
  /\ IF ok
     THEN Respond(i, PayoutSuccess(payouts[i]))
     ELSE IF payouts[i].sent < 2
     THEN /\ payouts' = [payouts EXCEPT ![i].stage = "sendTransaction"]
          /\ UNCHANGED payoutResponse
     ELSE Respond(i, PayoutError(500, "wait failed"))
  /\ UNCHANGED << adminKey, orchestrator, startTimer, isRunning, stopResponse,
                  sendETHCalls, lastTransfer, submitted >>
  /\ UNCHANGED cycleVars

\* tx.wait() settles for payout i: the confirmation, or a failure that the
\* handler's catch answers with 500.
WaitSettles(i, ok) ==
  /\ payouts[i].stage = "wait"
  /\ IF ok
     THEN Respond(i, PayoutSuccess(payouts[i]))
     ELSE Respond(i, PayoutError(500, "wait failed"))
  /\ UNCHANGED << adminKey, orchestrator, startTimer, isRunning, stopResponse,
                  sendETHCalls, lastTransfer, submitted >>
  /\ UNCHANGED cycleVars

\* The scheduling loop and the calls that drive it.
Next ==
  \/ InitOrchestrator
  \/ DeferredStart
  \/ Start
  \/ Stop
  \/ \E l \in 1..Len(loops) : \E o \in { "resolve", "throw" } : FindTasksTimer(l, o)
  \/ \E l \in 1..Len(loops) : \E o \in { "success", "failure", "throw" } : ExecuteTaskTimer(l, o)
  \/ \E l \in 1..Len(loops) : SleepTimer(l)

Spec == Init /\ [][Next]_vars

\* A sleep that has been set ends: the setTimeout callback of the 5-minute
\* sleep and of the 1-minute backoff is always delivered.
FairSpec == Spec /\ WF_vars(\E l \in 1..Len(loops) : SleepTimer(l))

\* The server left alone: init() constructs the orchestrator and starts it
\* once, nobody calls stop() or start() again, and the one loop runs.
ServerNext ==
  \/ InitOrchestrator
  \/ DeferredStart
  \/ \E l \in 1..Len(loops) : \E o \in { "resolve", "throw" } : FindTasksTimer(l, o)
  \/ \E l \in 1..Len(loops) : \E o \in { "success", "failure", "throw" } : ExecuteTaskTimer(l, o)
  \/ \E l \in 1..Len(loops) : SleepTimer(l)

ServerSpec == Init /\ [][ServerNext]_vars

\* The server stopped by a direct stop() and never started again: init()
\* starts the one loop, stop() may be called at any time.
StopNext ==
  \/ InitOrchestrator
  \/ DeferredStart
  \/ Stop
  \/ \E l \in 1..Len(loops) : \E o \in { "resolve", "throw" } : FindTasksTimer(l, o)
  \/ \E l \in 1..Len(loops) : \E o \in { "success", "failure", "throw" } : ExecuteTaskTimer(l, o)
  \/ \E l \in 1..Len(loops) : SleepTimer(l)

\* The awaited timer of a loop fires: discovery, execution and sleep each
\* return.
TimerFires ==
  \E l \in 1..Len(loops) :
    \/ \E o \in { "resolve", "throw" } : FindTasksTimer(l, o)
    \/ \E o \in { "success", "failure", "throw" } : ExecuteTaskTimer(l, o)
    \/ SleepTimer(l)

StopSpec == Init /\ [][StopNext]_vars /\ WF_vars(TimerFires)

\* The one loop of the server over a pool of substituted workers, whose
\* discovery hands back any number of tasks up to MaxFound.
StubNext ==
  \/ InitOrchestrator
  \/ DeferredStart
  \/ \E l \in 1..Len(loops) : \E n \in 0..MaxFound : StubFindTasksTimer(l, n)
  \/ \E l \in 1..Len(loops) : FindTasksTimer(l, "throw")
  \/ \E l \in 1..Len(loops) : \E o \in { "success", "failure", "throw" } : ExecuteTaskTimer(l, o)
  \/ \E l \in 1..Len(loops) : SleepTimer(l)

StubSpec == Init /\ [][StubNext]_vars

\* The control surface of the running server.  The handlers of /api/payout
\* and /api/emergency-stop read and write the admin key, the running flag
\* and the wallet; the timers of the loop write none of these, so they are
\* left out here, and so are direct calls of start() and stop(): the server
\* itself starts the orchestrator once, from init().
ControlInit ==
  /\ adminKey \in { Undefined, "admin-key" }
  /\ orchestrator = FALSE
  /\ startTimer = FALSE
  /\ isRunning = FALSE
  /\ stats = [totalEarnings |-> DblZero, tasksCompleted |-> 0, cycleCount |-> 0]
  /\ agents = [i \in 1..NumAgents |-> NewAgent(AgentNames[i])]
  /\ loops = << >>
  /\ iterations = 0
  /\ stopResponse = NoResponse
  /\ payouts = << >>
  /\ sendETHCalls = 0
  /\ lastTransfer = NoTransfer
  /\ submitted = 0
  /\ payoutResponse = NoPayoutResponse

ControlNext ==
  \/ InitOrchestrator
  \/ DeferredStart
  \/ \E key \in KeyValues : EmergencyStop(key)
  \/ \E key \in KeyValues : \E toAddress \in AddressValues : \E amount \in AmountValues :
       Payout(key, toAddress, amount)
  \/ \E i \in 1..Len(payouts) : \E ok \in BOOLEAN : GasPriceSettles(i, ok)
  \/ \E i \in 1..Len(payouts) : \E ok \in BOOLEAN : SendTransactionSettles(i, ok)
  \/ \E i \in 1..Len(payouts) : \E ok \in BOOLEAN : WaitSettles(i, ok)

ControlSpec == ControlInit /\ [][ControlNext]_vars

\* ------------------------------------------------------------ helpers
RECURSIVE WorkerTasks(_)
\* Sum of the first i workers' tasksCompleted.
WorkerTasks(i) == IF i = 0 THEN 0 ELSE WorkerTasks(i - 1) + agents[i].tasksCompleted

RECURSIVE WorkerEarnings(_)
\* Sum of the first i workers' totalEarnings, added up in pool order.
WorkerEarnings(i) ==
  IF i = 0 THEN DblZero ELSE DblAdd(WorkerEarnings(i - 1), agents[i].totalEarnings)

RECURSIVE RewardTimes(_)
\* The reward accumulated n times, one `+=` per completed task.
RewardTimes(n) == IF n = 0 THEN DblZero ELSE DblAdd(RewardTimes(n - 1), Reward)

\* No executeTask or findTasks in flight: every loop sleeps, or none is left.
BetweenCycles == \A l \in 1..Len(loops) : loops[l].pc = "sleep"

\* The loops that stand at the first step of a cycle.
AtCycleStart(ls) == { ls[l] : l \in { k \in 1..Len(ls) : ls[k] = AtFindTasks(1) } }

\* ------------------------------------------------------------- claims

\* C1: at most one runCycle loop instance is active on the Orchestrator at
\* any time, for any sequence of start() and stop() calls.
AtMostOneLoop == Len(loops) <= 1

\* C2 (as stated): once stop() has been called, a step of the loop that
\* completes makes no further findTasks or executeTask call until start():
\* a loop that moves while the orchestrator is stopped moves to its sleep
\* or returns.
NoCallAfterStop ==
  [][(~isRunning /\ ~isRunning' /\ Len(loops') = Len(loops))
       => \A l \in 1..Len(loops) : loops'[l] # loops[l] => loops'[l].pc = "sleep"]_vars

\* C2 (amended): once stop() has been called no loop begins a new cycle
\* until start(): cycleCount stands still and no loop enters the first
\* findTasks of a cycle; a loop whose sleep ends returns.
NoNewCycleAfterStop ==
  [][(~isRunning /\ ~isRunning')
       => /\ stats'.cycleCount = stats.cycleCount
          /\ AtCycleStart(loops') \subseteq AtCycleStart(loops)
          /\ Len(loops') <= Len(loops)]_vars

\* C2 witness: the orchestrator is stopped while a loop is in the middle of a
\* cycle, with workers still to visit.
StoppedMidCycle ==
  /\ ~isRunning
  /\ \E l \in 1..Len(loops) : loops[l].pc = "executeTask" /\ loops[l].pos >= 2

\* C3: between cycles the aggregate tasksCompleted and totalEarnings equal
\* the sums of the workers' tasksCompleted and totalEarnings.
AggregateEqualsWorkerSum ==
  BetweenCycles =>
    /\ stats.tasksCompleted = WorkerTasks(NumAgents)
    /\ stats.totalEarnings = WorkerEarnings(NumAgents)

\* C4: a worker's counters and the aggregate change in one indivisible step
\* per completed task: in every step either neither changes, or exactly one
\* worker gains one task and the task's reward and the aggregate gains one
\* task and that reward.
WorkerAndAggregateTogether ==
  [][LET changed == { i \in 1..NumAgents : agents'[i] # agents[i] }
         aggregate == << stats'.tasksCompleted, stats'.totalEarnings >>
                        # << stats.tasksCompleted, stats.totalEarnings >>
     IN /\ aggregate <=> changed # { }
        /\ \A i \in changed :
             /\ changed = { i }
             /\ agents'[i].tasksCompleted = agents[i].tasksCompleted + 1
             /\ agents'[i].totalEarnings = DblAdd(agents[i].totalEarnings, Reward)
             /\ stats'.tasksCompleted = stats.tasksCompleted + 1
             /\ stats'.totalEarnings = DblAdd(stats.totalEarnings, Reward)]_vars

\* C4 witness: a task has been folded in and the loop is in the middle of a
\* cycle, where a getStats() call can be served.
FoldedMidCycle ==
  /\ isRunning
  /\ GetStats.tasksCompleted >= 1
  /\ \E l \in 1..Len(loops) : loops[l].pc = "executeTask"

\* C5: every snapshot getStats() can return pairs tasksCompleted with the
\* totalEarnings that holds exactly that many rewards: never one more task
\* than rewards, never one more reward than tasks.
SnapshotCountMatchesEarnings ==
  /\ GetStats.totalEarnings = RewardTimes(GetStats.tasksCompleted)
  /\ \A n \in 0..GetStats.tasksCompleted :
       RewardTimes(n + 1) # RewardTimes(n)

\* C5 witness: a snapshot taken mid-cycle that already counts two tasks.
SnapshotMidCycle ==
  /\ GetStats.tasksCompleted >= 2
  /\ \E l \in 1..Len(loops) : loops[l].pc = "findTasks" /\ loops[l].pos >= 2

\* C6: cycleCount equals the number of loop iterations begun (its value at
\* construction is 0): one increment per iteration, no skip, no double count.
CycleCountIsIterations == stats.cycleCount = iterations

\* C6 witness: a second iteration has begun and a loop is in the backoff
\* that follows a cycle error.
SecondIterationAfterError ==
  /\ iterations >= 2
  /\ \E l \in 1..Len(loops) : loops[l] = AtSleep(BackoffMs)

\* C7: a throwing findTasks or executeTask leaves the loop alive in the
\* 1-minute backoff, a loop returns only when the orchestrator is stopped,
\* and a running orchestrator with a loop in backoff counts a further cycle
\* (up to the bound on cycleCount).
CycleErrorKeepsLoop ==
  /\ [][/\ \A l \in 1..Len(loops) :
             (FindTasksTimer(l, "throw") \/ ExecuteTaskTimer(l, "throw"))
               => (Len(loops') = Len(loops) /\ loops'[l] = AtSleep(BackoffMs))
        /\ Len(loops') < Len(loops) => ~isRunning]_vars
  /\ \A n \in 0..(MaxCycles - 1) :
       ((\E l \in 1..Len(loops) : loops[l] = AtSleep(BackoffMs))
          /\ isRunning /\ stats.cycleCount = n)
         ~> (stats.cycleCount > n \/ ~isRunning)

\* C7 witness: the orchestrator runs, a loop is in backoff after an error,
\* and a cycle has been counted since the first one.
BackoffWhileRunning ==
  /\ isRunning
  /\ stats.cycleCount >= 2
  /\ \E l \in 1..Len(loops) : loops[l] = AtSleep(BackoffMs)

\* C8 (as stated): neither stop() nor start() changes the aggregate
\* totalEarnings, tasksCompleted or cycleCount, nor any worker's counters.
StartStopChangeNoStats ==
  [][isRunning' # isRunning => (stats' = stats /\ agents' = agents)]_vars

\* C8 (amended): stop() changes no statistic; a start() that takes effect
\* changes no worker counter, not totalEarnings and not tasksCompleted, and
\* adds exactly one to cycleCount, for the iteration that begins inside the
\* call.
StartStopPreserveStats ==
  [][isRunning' # isRunning =>
       /\ agents' = agents
       /\ stats'.totalEarnings = stats.totalEarnings
       /\ stats'.tasksCompleted = stats.tasksCompleted
       /\ stats'.cycleCount = stats.cycleCount + (IF isRunning' THEN 1 ELSE 0)]_vars

\* C8 witness: a loop started after a stop() (the earlier loop is still
\* there) stands at the first step of its cycle, with earlier earnings kept.
ResumedWithStats ==
  /\ isRunning
  /\ Len(loops) = 2
  /\ loops[2] = AtFindTasks(1)
  /\ stats.tasksCompleted >= 1
  /\ agents[1].tasksCompleted >= 1

\* C9: a payout or emergency-stop whose credential differs from the admin
\* credential is answered 403 Unauthorized whatever its fields are, and
\* changes nothing: no sendETH call, no payout in flight, no transaction, and
\* the running flag as it was.
UnauthorizedRejected ==
  [][\A key \in KeyValues : key # adminKey =>
       /\ EmergencyStop(key) =>
            /\ stopResponse' = [status |-> 403, error |-> "Unauthorized"]
            /\ isRunning' = isRunning
       /\ \A toAddress \in AddressValues : \A amount \in AmountValues :
            Payout(key, toAddress, amount) =>
              /\ payoutResponse' = PayoutError(403, "Unauthorized")
              /\ sendETHCalls' = sendETHCalls
              /\ lastTransfer' = lastTransfer
              /\ payouts' = payouts
              /\ submitted' = submitted]_vars

\* C9 witness: an unauthorized stop and an unauthorized payout have been
\* answered while the orchestrator runs; it still runs and the wallet has
\* not been called.
UnauthorizedAnswered ==
  /\ stopResponse.status = 403
  /\ payoutResponse.status = 403
  /\ isRunning
  /\ sendETHCalls = 0

\* C10: an authorized payout without toAddress or without amount is answered
\* 400 Missing fields and sendETH is not invoked for it.
MissingFieldRejected ==
  [][\A toAddress \in AddressValues : \A amount \in AmountValues :
       (toAddress = Undefined \/ amount = UndefinedNum) =>
         (Payout(adminKey, toAddress, amount) =>
            /\ payoutResponse' = PayoutError(400, "Missing fields")
            /\ sendETHCalls' = sendETHCalls
            /\ lastTransfer' = lastTransfer
            /\ payouts' = payouts
            /\ submitted' = submitted)]_vars

\* C10 witness: a request has been answered 400 after an earlier transfer;
\* the wallet has seen that one call only.
MissingFieldAnswered ==
  /\ payoutResponse.status = 400
  /\ sendETHCalls = 1
  /\ submitted = 1
  /\ payouts = << >>

\* C11: an authorized payout with a valid address and a positive amount
\* hands sendETH exactly netAmount = amount - amount * 0.02, and fee and
\* netAmount add up to amount; for amount = 100 the fee is 2 and sendETH
\* receives 98.
FeePlusNetIsAmount ==
  [][\A amount \in AmountValues :
       (~FalsyNumber(amount) /\ ~amount.neg) =>
         (Payout(adminKey, ValidAddress, amount) =>
            /\ lastTransfer'.toAddress = ValidAddress
            /\ lastTransfer'.amount = NetAmount(amount)
            /\ ~Fee(amount).neg /\ ~NetAmount(amount).neg
            /\ DblAdd(Fee(amount).mag, lastTransfer'.amount.mag) = amount.mag
            /\ amount.mag = DblHundred =>
                 /\ Fee(amount).mag = [hi |-> 2^26, lo |-> 0, e |-> 0 - 51]
                 /\ lastTransfer'.amount.mag = [hi |-> 49 * 2^21, lo |-> 0, e |-> 0 - 46])]_vars

\* C12: an authorized payout whose toAddress is not an address is answered
\* as a client-side (4xx) validation failure, unlike a ledger failure, and
\* no transaction is submitted for it.
InvalidAddressIsClientFailure ==
  [][\A toAddress \in AddressValues : \A amount \in AmountValues :
       (~MissingFields(toAddress, amount) /\ ~IsAddress(toAddress)) =>
         (Payout(adminKey, toAddress, amount) =>
            /\ payoutResponse'.status \in 400..499
            /\ payouts' = payouts
            /\ submitted' = submitted)]_vars

\* C13: an authorized payout with a zero or negative amount never reaches
\* sendETH.
NonPositiveAmountNotTransferred ==
  [][\A toAddress \in AddressValues : \A amount \in AmountValues :
       (~amount.undef /\ (IsZero(amount.mag) \/ amount.neg)) =>
         (Payout(adminKey, toAddress, amount) =>
            /\ sendETHCalls' = sendETHCalls
            /\ lastTransfer' = lastTransfer
            /\ payouts' = payouts)]_vars

\* C14: a payout request calls sendETH at most once and a sendETH call sends
\* at most one transaction; when getGasPrice, sendTransaction or the
\* confirmation wait fails, the handler answers 500 and ends, with no
\* further sendETH call and no further transaction.
NoAutoRetry ==
  /\ [](/\ \A i \in 1..Len(payouts) : payouts[i].sent <= 1
        /\ submitted <= sendETHCalls)
  /\ [][/\ sendETHCalls' <= sendETHCalls + 1
        /\ \A i \in 1..Len(payouts) :
             (\/ GasPriceSettles(i, FALSE)
              \/ SendTransactionSettles(i, FALSE)
              \/ WaitSettles(i, FALSE)) =>
               /\ payoutResponse'.status = 500
               /\ payouts' = RemoveAt(payouts, i)
               /\ sendETHCalls' = sendETHCalls
               /\ submitted' = submitted]_vars

\* C14 witness: a payout whose transaction was sent has failed in the
\* confirmation wait and has been answered; the wallet has seen one call
\* and one transaction.
FailedWaitAnswered ==
  /\ payoutResponse = PayoutError(500, "wait failed")
  /\ sendETHCalls = 1
  /\ submitted = 1
  /\ payouts = << >>

\* C15: an executeTask that succeeds adds one to its worker's tasksCompleted
\* and task.reward to its totalEarnings and resolves to success with
\* earnings = task.reward; one that fails changes no counter of the worker,
\* resolves to success = false, and leaves the aggregate as it was; in
\* both cases every other worker is left as it was.
ExecuteTaskFrame ==
  [][\A l \in 1..Len(loops) :
       LET a    == ActiveAgents[loops[l].pos]
           task == Head(loops[l].tasks)
       IN /\ ExecuteTaskTimer(l, "success") =>
               /\ agents'[a] = [agents[a] EXCEPT
                     !.tasksCompleted = @ + 1,
                     !.totalEarnings = DblAdd(@, task.reward)]
               /\ ExecuteResult(task, TRUE) = [success |-> TRUE, earnings |-> task.reward]
               /\ \A j \in 1..NumAgents : j # a => agents'[j] = agents[j]
          /\ ExecuteTaskTimer(l, "failure") =>
               /\ agents' = agents
               /\ ~ExecuteResult(task, FALSE).success
               /\ stats' = stats]_vars

\* C15 witness: in the first cycle of the one loop the first worker's task
\* has succeeded and the second worker's has failed; the third worker is
\* being visited.
SuccessThenFailure ==
  /\ Len(loops) = 1
  /\ loops[1] = AtFindTasks(3)
  /\ stats.cycleCount = 1
  /\ agents[1].tasksCompleted = 1
  /\ agents[2].tasksCompleted = 0
  /\ stats.tasksCompleted = 1

\* C16: within a cycle the active workers are visited one at a time in pool
\* order.  A loop stands at one worker's findTasks or at one worker's
\* executeTask; from a worker's findTasks it goes to that worker's first
\* task, having kept at most TaskCap of the tasks found, or to the next
\* worker when none was found; from an executeTask it goes to the same
\* worker's next task, the executed one dropped, or to the next worker
\* after the last; the next worker is entered at its findTasks; an error
\* ends the cycle.
PoolOrderOneAtATime ==
  /\ [](/\ ActiveAgents = [i \in 1..NumAgents |-> i]
        /\ \A i \in 1..NumAgents : agents[i].name = AgentNames[i]
        /\ \A l \in 1..Len(loops) :
             /\ Len(loops[l].tasks) <= TaskCap
             /\ loops[l].pc = "executeTask" => loops[l].tasks # << >>
             /\ loops[l].pc # "sleep" => loops[l].pos \in 1..NumAgents)
  /\ [][\A l \in 1..Len(loops) :
          (Len(loops') = Len(loops) /\ loops'[l] # loops[l]) =>
            LET old == loops[l]
                new == loops'[l]
                nextWorker == IF old.pos < NumAgents THEN AtFindTasks(old.pos + 1)
                              ELSE AtSleep(CycleSleepMs)
            IN \/ new = AtSleep(BackoffMs) /\ old.pc # "sleep"
               \/ /\ old.pc = "findTasks"
                  /\ \E n \in 1..MaxFound :
                       new = AtExecuteTask(old.pos, SubSeq(StubTasks(n), 1, IF n < 2 THEN n ELSE 2))
                  /\ agents' = agents
               \/ old.pc = "findTasks" /\ new = nextWorker /\ agents' = agents
               \/ /\ old.pc = "executeTask"
                  /\ Len(old.tasks) > 1
                  /\ new = AtExecuteTask(old.pos, Tail(old.tasks))
                  /\ \A j \in 1..NumAgents : j # old.pos => agents'[j] = agents[j]
               \/ /\ old.pc = "executeTask"
                  /\ Len(old.tasks) = 1
                  /\ new = nextWorker
                  /\ \A j \in 1..NumAgents : j # old.pos => agents'[j] = agents[j]
               \/ old.pc = "sleep" /\ new = AtFindTasks(1)]_vars

\* C16 witness: the second worker's discovery runs after the first worker
\* has executed both tasks left by the cap.
SecondWorkerAfterTwoTasks ==
  /\ Len(loops) = 1
  /\ loops[1] = AtFindTasks(2)
  /\ stats.cycleCount = 1
  /\ agents[1].tasksCompleted = 2
  /\ agents[2].tasksCompleted = 0

\* C17: stopping is cooperative.  An executeTask that succeeds while the
\* orchestrator is stopped still adds its task and reward to its worker and
\* to the aggregate, and its loop goes on; a loop returns only from the
\* while test that follows a sleep; and a stopped orchestrator with a loop
\* left loses the loop (or is started again).
CooperativeStop ==
  /\ [][\A l \in 1..Len(loops) :
          (~isRunning /\ ExecuteTaskTimer(l, "success")) =>
            LET a == ActiveAgents[loops[l].pos]
            IN /\ agents'[a].tasksCompleted = agents[a].tasksCompleted + 1
               /\ agents'[a].totalEarnings = DblAdd(agents[a].totalEarnings, Reward)
               /\ stats'.tasksCompleted = stats.tasksCompleted + 1
               /\ stats'.totalEarnings = DblAdd(stats.totalEarnings, Reward)
               /\ Len(loops') = Len(loops)]_vars
  /\ [][Len(loops') < Len(loops) =>
          /\ ~isRunning
          /\ \E l \in 1..Len(loops) :
               loops[l].pc = "sleep" /\ loops' = RemoveAt(loops, l)]_vars
  /\ (~isRunning /\ loops # << >>) ~> (isRunning \/ loops = << >>)

\* C17 witness: the orchestrator is stopped and its loop has returned after
\* one cycle in which every worker's task was folded in.
StoppedLoopReturned ==
  /\ ~isRunning
  /\ ~startTimer
  /\ loops = << >>
  /\ stats.cycleCount = 1
  /\ stats.tasksCompleted = NumAgents
  /\ \A i \in 1..NumAgents : agents[i].tasksCompleted = 1

\* C18: an authorized emergency-stop answered 200 while init()'s deferred
\* start is still pending keeps the loop stopped: the deferred start, when
\* it fires, leaves the orchestrator stopped and begins no cycle.
StartupStopKeepsStopped ==
  [][(startTimer /\ stopResponse.status = 200 /\ ~isRunning /\ DeferredStart) =>
       /\ ~isRunning'
       /\ loops' = loops
       /\ stats'.cycleCount = stats.cycleCount]_vars

\* C19: a payout or emergency-stop without x-api-key is answered 403
\* whatever the admin credential is, set or unset; it calls no sendETH,
\* leaves no payout in flight and leaves the running flag as it was.
NoCredentialRejected ==
  [][/\ EmergencyStop(Undefined) =>
          /\ stopResponse'.status = 403
          /\ isRunning' = isRunning
     /\ \A toAddress \in AddressValues : \A amount \in AmountValues :
          Payout(Undefined, toAddress, amount) =>
            /\ payoutResponse'.status = 403
            /\ sendETHCalls' = sendETHCalls
            /\ lastTransfer' = lastTransfer
            /\ payouts' = payouts]_vars

\* C20: a findTasks or executeTask that throws mid-cycle changes no worker
\* counter and no aggregate, so what the cycle has completed is kept, and
\* in the backoff that follows the aggregate equals the sum of the
\* workers' counters; the loop visits no further worker in that cycle: its
\* next step is the while test, which begins the next iteration or returns.
ErrorKeepsCompletedResults ==
  /\ [][\A l \in 1..Len(loops) :
          (FindTasksTimer(l, "throw") \/ ExecuteTaskTimer(l, "throw")) =>
            /\ agents' = agents
            /\ stats' = stats
            /\ loops' = [loops EXCEPT ![l] = AtSleep(BackoffMs)]]_vars
  /\ [][\A l \in 1..Len(loops) :
          (loops[l] = AtSleep(BackoffMs) /\ Len(loops') = Len(loops)
             /\ loops'[l] # loops[l]) =>
            /\ loops'[l] = AtFindTasks(1)
            /\ stats'.cycleCount = stats.cycleCount + 1
            /\ agents' = agents]_vars
  /\ []((\E l \in 1..Len(loops) : loops[l] = AtSleep(BackoffMs)) =>
          /\ stats.tasksCompleted = WorkerTasks(NumAgents)
          /\ stats.totalEarnings = WorkerEarnings(NumAgents))
====
